---------------------------- MODULE Spec2Model ----------------------------
(***************************************************************************)
(* The API proxy of the dashboard (src/src/app/api/proxy/route.ts) with    *)
(* its provider policy table (src/src/config/apiRateLimits.ts): the        *)
(* in-memory response cache, the per-URL fixed-window rate limiter, the    *)
(* periodic reaper and the GET handler, which suspends once, at the        *)
(* awaited outbound fetch.                                                 *)
(*                                                                         *)
(* JavaScript strings are TLA+ strings; `${a}${b}` is a \o b and           *)
(* s.includes(t) is Includes(s, t).  A value that may be null (a query     *)
(* parameter, error.message) is a record [present, value].  Time is        *)
(* Date.now() in milliseconds.                                             *)
(***************************************************************************)
EXTENDS Integers, Sequences, FiniteSets, TLC

VARIABLES
    now,            \* Date.now()
    policies,       \* API_RATE_LIMITS as loaded (never changes)
    cache,          \* Map<string, CacheEntry>: cache key -> [data, timestamp, ttl]
    requestQueue,   \* Map<string, {timestamp, count}>: url -> window entry
    pending,        \* GET calls suspended at `await fetch`
    nextSweep,      \* the time the reaper's interval timer is next due
    nfetch,         \* number of outbound fetches issued so far (the latest one's id)
    last,           \* what the latest step did: the response it returned, if any
    lastPut,        \* history: per cache key, the latest cache.set and its request
    limiterLog,     \* history: the isRateLimited calls for provider URLs
    unsweptQueue,   \* history: requestQueue as it would be with no reaper
    widget          \* a Widget component in a browser: its state, closures and timers

vars == <<now, policies, cache, requestQueue, pending, nextSweep, nfetch, last,
          lastPut, limiterLog, unsweptQueue, widget>>

-----------------------------------------------------------------------------
(* Strings and nullable values *)

None == [present |-> FALSE, value |-> ""]
Some(s) == [present |-> TRUE, value |-> s]

\* JavaScript truthiness of a string-or-null
Truthy(o) == o.present /\ o.value # ""

\* String.prototype.includes
Includes(s, t) ==
    \E i \in 1..(Len(s) - Len(t) + 1) : SubSeq(s, i, i + Len(t) - 1) = t

StartsWith(s, t) == Len(s) >= Len(t) /\ SubSeq(s, 1, Len(t)) = t

LowerChar(c) ==
    CASE c = "A" -> "a" [] c = "B" -> "b" [] c = "C" -> "c" [] c = "D" -> "d"
      [] c = "E" -> "e" [] c = "F" -> "f" [] c = "G" -> "g" [] c = "H" -> "h"
      [] c = "I" -> "i" [] c = "J" -> "j" [] c = "K" -> "k" [] c = "L" -> "l"
      [] c = "M" -> "m" [] c = "N" -> "n" [] c = "O" -> "o" [] c = "P" -> "p"
      [] c = "Q" -> "q" [] c = "R" -> "r" [] c = "S" -> "s" [] c = "T" -> "t"
      [] c = "U" -> "u" [] c = "V" -> "v" [] c = "W" -> "w" [] c = "X" -> "x"
      [] c = "Y" -> "y" [] c = "Z" -> "z" [] OTHER -> c

RECURSIVE toLowerCase(_)
toLowerCase(s) ==
    IF s = "" THEN ""
    ELSE LowerChar(SubSeq(s, 1, 1)) \o toLowerCase(SubSeq(s, 2, Len(s)))

\* a parser that takes any non-empty string
ParsesAsURL_Lenient(s) == s # ""

\* new URL(url) without a base throws unless the string is an absolute URL;
\* for the http(s) URLs of this model: a scheme followed by a non-empty host
ParsesAsURL(s) ==
    \E scheme \in {"http://", "https://"} :
        StartsWith(s, scheme) /\ Len(s) > Len(scheme)

-----------------------------------------------------------------------------
(* src/src/config/apiRateLimits.ts *)

API_RATE_LIMITS ==
    << [domain      |-> "coingecko.com",
        maxRequests |-> 3,
        windowMs    |-> 60000,
        cacheMs     |-> 300000,
        description |-> "CoinGecko free tier: 3 requests per minute"] >>

\* the result of getRateLimitConfig when no policy matches (null)
NoConfig ==
    [domain |-> "", maxRequests |-> 0, windowMs |-> 0, cacheMs |-> 0,
     description |-> ""]

\* API_RATE_LIMITS.find(config => url.includes(config.domain)) || null
getRateLimitConfig(url) ==
    LET hits == {i \in 1..Len(policies) : Includes(url, policies[i].domain)}
    IN  IF hits = {} THEN NoConfig
        ELSE policies[CHOOSE i \in hits : \A j \in hits : i <= j]

\* every URL taken as cacheable
shouldCacheApi_Always(url) == TRUE

shouldCacheApi(url) == getRateLimitConfig(url) # NoConfig

getCacheDuration(url) ==
    LET config == getRateLimitConfig(url)
    IN  IF config # NoConfig THEN config.cacheMs ELSE 0

-----------------------------------------------------------------------------
(* src/src/app/api/proxy/route.ts: the maps, the reaper, the rate limiter *)

\* the reaper's setInterval period
REAPER_PERIOD_MS == 60000
\* the age beyond which the reaper drops a requestQueue entry
STALE_MS == 120000
\* AbortSignal.timeout of the outbound fetch
FETCH_TIMEOUT_MS == 15000

\* Map.prototype.set
MapSet(m, k, v) == [x \in DOMAIN m \cup {k} |-> IF x = k THEN v ELSE m[x]]

\* what remains of a map after deleting the keys in gone
MapDelete(m, gone) == [x \in DOMAIN m \ gone |-> m[x]]

\* a sweep that evicts cache entries by the age limit of requestQueue entries
SweptCache_ByStaleAge(c, t) ==
    MapDelete(c, {k \in DOMAIN c : t - c[k].timestamp > 120000})

\* a sweep that also evicts the entries whose age equals their ttl
SweptCache_AtTtl(c, t) ==
    MapDelete(c, {k \in DOMAIN c : t - c[k].timestamp >= c[k].ttl})

\* a sweep that leaves an expired entry one more period
SweptCache_OnePeriodLate(c, t) ==
    MapDelete(c, {k \in DOMAIN c : t - c[k].timestamp > c[k].ttl + 60000})

\* the reaper's first loop: cache entries with now - timestamp > ttl go
SweptCache(c, t) ==
    MapDelete(c, {k \in DOMAIN c : t - c[k].timestamp > c[k].ttl})

\* a sweep that evicts the window entries older than half a reaper period
SweptQueue_Eager(q, t) ==
    MapDelete(q, {k \in DOMAIN q : t - q[k].timestamp > 30000})

\* the reaper's second loop: window entries older than STALE_MS go
SweptQueue(q, t) ==
    MapDelete(q, {k \in DOMAIN q : t - q[k].timestamp > STALE_MS})

\* isRateLimited with the quota test off by one (count > maxRequests)
isRateLimited_OffByOne(url) ==
    LET config == getRateLimitConfig(url)
        fresh  == MapSet(requestQueue, url, [timestamp |-> now, count |-> 1])
    IN  IF config = NoConfig
        THEN [limited |-> FALSE, queue |-> requestQueue]
        ELSE IF url \notin DOMAIN requestQueue
        THEN [limited |-> FALSE, queue |-> fresh]
        ELSE IF now - requestQueue[url].timestamp > config.windowMs
        THEN [limited |-> FALSE, queue |-> fresh]
        ELSE IF requestQueue[url].count > config.maxRequests
        THEN [limited |-> TRUE, queue |-> requestQueue]
        ELSE [limited |-> FALSE,
              queue |-> [requestQueue EXCEPT ![url].count = @ + 1]]

\* isRateLimited with a denial restarting the window (entry.timestamp = now)
isRateLimited_DenialExtends(url) ==
    LET config == getRateLimitConfig(url)
        fresh  == MapSet(requestQueue, url, [timestamp |-> now, count |-> 1])
    IN  IF config = NoConfig
        THEN [limited |-> FALSE, queue |-> requestQueue]
        ELSE IF url \notin DOMAIN requestQueue
        THEN [limited |-> FALSE, queue |-> fresh]
        ELSE IF now - requestQueue[url].timestamp > config.windowMs
        THEN [limited |-> FALSE, queue |-> fresh]
        ELSE IF requestQueue[url].count >= config.maxRequests
        THEN [limited |-> TRUE,
              queue |-> [requestQueue EXCEPT ![url].timestamp = now]]
        ELSE [limited |-> FALSE,
              queue |-> [requestQueue EXCEPT ![url].count = @ + 1]]

\* isRateLimited denying a URL for which a fetch is in flight
isRateLimited_OneInFlight(url) ==
    LET config == getRateLimitConfig(url)
        fresh  == MapSet(requestQueue, url, [timestamp |-> now, count |-> 1])
    IN  IF config = NoConfig
        THEN [limited |-> FALSE, queue |-> requestQueue]
        ELSE IF \E p \in pending : p.url = url
        THEN [limited |-> TRUE, queue |-> requestQueue]
        ELSE IF url \notin DOMAIN requestQueue
        THEN [limited |-> FALSE, queue |-> fresh]
        ELSE IF now - requestQueue[url].timestamp > config.windowMs
        THEN [limited |-> FALSE, queue |-> fresh]
        ELSE IF requestQueue[url].count >= config.maxRequests
        THEN [limited |-> TRUE, queue |-> requestQueue]
        ELSE [limited |-> FALSE,
              queue |-> [requestQueue EXCEPT ![url].count = @ + 1]]

\* isRateLimited with an allowed call counted against every URL in the map
isRateLimited_SharedCount(url) ==
    LET config == getRateLimitConfig(url)
        fresh  == MapSet(requestQueue, url, [timestamp |-> now, count |-> 1])
    IN  IF config = NoConfig
        THEN [limited |-> FALSE, queue |-> requestQueue]
        ELSE IF url \notin DOMAIN requestQueue
        THEN [limited |-> FALSE, queue |-> fresh]
        ELSE IF now - requestQueue[url].timestamp > config.windowMs
        THEN [limited |-> FALSE, queue |-> fresh]
        ELSE IF requestQueue[url].count >= config.maxRequests
        THEN [limited |-> TRUE, queue |-> requestQueue]
        ELSE [limited |-> FALSE,
              queue |-> [u \in DOMAIN requestQueue |->
                            [requestQueue[u] EXCEPT !.count = @ + 1]]]

\* isRateLimited with the window reset at now - timestamp >= windowMs
isRateLimited_ResetAtBoundary(url) ==
    LET config == getRateLimitConfig(url)
        fresh  == MapSet(requestQueue, url, [timestamp |-> now, count |-> 1])
    IN  IF config = NoConfig
        THEN [limited |-> FALSE, queue |-> requestQueue]
        ELSE IF url \notin DOMAIN requestQueue
        THEN [limited |-> FALSE, queue |-> fresh]
        ELSE IF now - requestQueue[url].timestamp >= config.windowMs
        THEN [limited |-> FALSE, queue |-> fresh]
        ELSE IF requestQueue[url].count >= config.maxRequests
        THEN [limited |-> TRUE, queue |-> requestQueue]
        ELSE [limited |-> FALSE,
              queue |-> [requestQueue EXCEPT ![url].count = @ + 1]]

\* isRateLimited(url): whether the call is denied, and requestQueue after it
isRateLimited(url) ==
    LET config == getRateLimitConfig(url)
        fresh  == MapSet(requestQueue, url, [timestamp |-> now, count |-> 1])
    IN  IF config = NoConfig
        THEN [limited |-> FALSE, queue |-> requestQueue]
        ELSE IF url \notin DOMAIN requestQueue
        THEN [limited |-> FALSE, queue |-> fresh]
        ELSE IF now - requestQueue[url].timestamp > config.windowMs
        THEN [limited |-> FALSE, queue |-> fresh]
        ELSE IF requestQueue[url].count >= config.maxRequests
        THEN [limited |-> TRUE, queue |-> requestQueue]
        ELSE [limited |-> FALSE,
              queue |-> [requestQueue EXCEPT ![url].count = @ + 1]]

\* isRateLimited(url) run on the requestQueue that no reaper sweeps
isRateLimitedUnswept(url) ==
    LET config == getRateLimitConfig(url)
        fresh  == MapSet(unsweptQueue, url, [timestamp |-> now, count |-> 1])
    IN  IF config = NoConfig
        THEN [limited |-> FALSE, queue |-> unsweptQueue]
        ELSE IF url \notin DOMAIN unsweptQueue
        THEN [limited |-> FALSE, queue |-> fresh]
        ELSE IF now - unsweptQueue[url].timestamp > config.windowMs
        THEN [limited |-> FALSE, queue |-> fresh]
        ELSE IF unsweptQueue[url].count >= config.maxRequests
        THEN [limited |-> TRUE, queue |-> unsweptQueue]
        ELSE [limited |-> FALSE,
              queue |-> [unsweptQueue EXCEPT ![url].count = @ + 1]]

\* a probe key made of the url alone
cacheKey_IgnoresApiKey(url, apiKey) == url

\* const cacheKey = apiKey ? `${url}:${apiKey}` : url   (the probe)
cacheKey(url, apiKey) ==
    IF Truthy(apiKey) THEN url \o ":" \o apiKey.value ELSE url

\* a write key made of the url alone
cacheKeyOnWrite_UrlOnly(url, apiKey) == url

\* the same expression, evaluated again before cache.set
cacheKeyOnWrite(url, apiKey) ==
    IF Truthy(apiKey) THEN url \o ":" \o apiKey.value ELSE url

\* the cache probe without the skipCache test
CacheProbe_IgnoresSkip(url, apiKey, skipCache) ==
    IF shouldCacheApi(url) /\ cacheKey(url, apiKey) \in DOMAIN cache
    THEN [hit |-> TRUE, data |-> cache[cacheKey(url, apiKey)].data]
    ELSE [hit |-> FALSE, data |-> ""]

\* the cache probe made only while the URL has quota left
CacheProbe_NeedsQuota(url, apiKey, skipCache) ==
    IF /\ ~skipCache /\ shouldCacheApi(url)
       /\ cacheKey(url, apiKey) \in DOMAIN cache
       /\ ~(/\ url \in DOMAIN requestQueue
            /\ requestQueue[url].count >= getRateLimitConfig(url).maxRequests)
    THEN [hit |-> TRUE, data |-> cache[cacheKey(url, apiKey)].data]
    ELSE [hit |-> FALSE, data |-> ""]

\* the cache probe: the entry GET answers from, if it answers from the cache
CacheProbe(url, apiKey, skipCache) ==
    IF ~skipCache /\ shouldCacheApi(url) /\ cacheKey(url, apiKey) \in DOMAIN cache
    THEN [hit |-> TRUE, data |-> cache[cacheKey(url, apiKey)].data]
    ELSE [hit |-> FALSE, data |-> ""]

\* the denial message without the policy's description
LocalDenyMessage_Generic(url) ==
    "Rate limit exceeded. Please wait before making another request."

\* the message of the 429 that GET returns when isRateLimited(url) is true
LocalDenyMessage(url) ==
    LET config == getRateLimitConfig(url)
    IN  IF config # NoConfig
        THEN config.description \o ". Please wait before making another request."
        ELSE "Rate limit exceeded. Please wait before making another request."

\* the upstream 429 answered with the text of the local denial
UpstreamThrottleMessage_AsLocal ==
    "Rate limit exceeded. Please wait before making another request."

\* the message of the 429 that GET returns for an upstream 429
UpstreamThrottleMessage ==
    "The external API is rate limiting requests. Please try again later."

-----------------------------------------------------------------------------
(* What the outbound fetch can do: resolve with a response or reject *)

Resp(status, statusText, contentType, text, parses, data) ==
    [kind |-> "response", status |-> status, statusText |-> statusText,
     contentType |-> contentType, text |-> text, parses |-> parses,
     data |-> data, name |-> "", message |-> None, code |-> ""]

Thrown(name, message, code) ==
    [kind |-> "throw", status |-> 0, statusText |-> "", contentType |-> None,
     text |-> "", parses |-> FALSE, data |-> "", name |-> name,
     message |-> message, code |-> code]

JSON_CT == Some("application/json; charset=utf-8")

\* the JSON body the upstream serves to the n-th outbound fetch: each fetch
\* sees its own version of the upstream's data
Payload(n) == "p" \o ToString(n)

\* how the n-th outbound fetch can settle
Outcomes(n) ==
    { Resp(200, "OK", JSON_CT, "", TRUE, Payload(n)),
      Resp(200, "OK", Some("text/html"), "<html>", FALSE, ""),
      Resp(200, "OK", None, "", FALSE, ""),
      Resp(200, "OK", JSON_CT, "<html>", FALSE, ""),
      Resp(429, "Too Many Requests", JSON_CT, "", TRUE, Payload(n)),
      Resp(401, "Unauthorized", JSON_CT, "", TRUE, Payload(n)),
      Resp(403, "Forbidden", JSON_CT, "", TRUE, Payload(n)),
      Resp(400, "Bad Request", Some("text/plain"), "Missing API Key", FALSE, ""),
      Resp(400, "Bad Request", JSON_CT, "Authentication failed", FALSE, ""),
      Resp(400, "Bad Request", JSON_CT, "UNAUTHORIZED", FALSE, ""),
      Resp(400, "Bad Request", Some("text/plain"), "bad symbol", FALSE, ""),
      Resp(404, "Not Found", Some("text/html"), "<html>", FALSE, ""),
      Resp(500, "Internal Server Error", JSON_CT, "", TRUE, Payload(n)),
      Thrown("TimeoutError", Some("The operation was aborted due to timeout"), ""),
      Thrown("TypeError", Some("fetch failed"), ""),
      Thrown("TypeError", Some("fetch failed"), "ECONNREFUSED"),
      Thrown("Error", Some("connect ECONNREFUSED"), "ECONNREFUSED"),
      Thrown("Error", Some("getaddrinfo ENOTFOUND"), "ENOTFOUND"),
      Thrown("Error", Some("socket hang up"), "ECONNRESET"),
      Thrown("Error", None, "") }

\* a fetch that succeeds, is throttled upstream, or times out
MainOutcomes(n) ==
    {o \in Outcomes(n) :
        \/ o.kind = "response" /\ o.status \in {200, 429} /\ o.parses
        \/ o.name = "TimeoutError"}

\* no fetch has settled in the step
NoOutcome == [Thrown("", None, "") EXCEPT !.kind = "none"]

\* the error response.json() throws on a body that is not JSON
JsonSyntaxError ==
    Thrown("SyntaxError", Some("Unexpected token < in JSON at position 0"), "")

\* the catch block of GET: the message of the 500 it returns
CatchMessage(e) ==
    IF e.name = "AbortError" \/ e.name = "TimeoutError"
    THEN "Request timed out. Please check if the API is accessible."
    ELSE IF e.message.present /\ Includes(e.message.value, "fetch")
    THEN "Network error. Please check the URL and your internet connection."
    ELSE IF e.code = "ENOTFOUND" \/ e.code = "ECONNREFUSED"
    THEN "Unable to connect to the API. Please check if the URL is correct and accessible."
    ELSE IF Truthy(e.message) THEN e.message.value
    ELSE "Failed to fetch the resource"

\* every response that is not ok reported with the generic message
NotOkMessage_Generic(o) ==
    "HTTP error! status: " \o ToString(o.status) \o " - " \o o.statusText

\* the message of a response that is not ok (and not 429)
NotOkMessage(o) ==
    IF o.status = 401 THEN "Unauthorized: API key required or invalid"
    ELSE IF o.status = 403
    THEN "Forbidden: Invalid API key or insufficient permissions"
    ELSE IF /\ o.status = 400
            /\ \/ Includes(toLowerCase(o.text), "api key")
               \/ Includes(toLowerCase(o.text), "authentication")
               \/ Includes(toLowerCase(o.text), "unauthorized")
    THEN "Bad Request: API key required for this endpoint"
    ELSE "HTTP error! status: " \o ToString(o.status) \o " - " \o o.statusText

\* GET without its try/catch: a rejected fetch or a body that does not parse
\* leaves the handler as a fault (no status, no envelope)
Classify_NoCatch(url, o) ==
    LET Err(status, msg) ==
            [status |-> status, error |-> msg, data |-> "", xcache |-> "",
             success |-> FALSE]
    IN  IF o.kind = "throw" THEN Err(0, "")
        ELSE IF o.status = 429 THEN Err(429, UpstreamThrottleMessage)
        ELSE IF ~(o.status >= 200 /\ o.status <= 299)
        THEN Err(o.status, NotOkMessage(o))
        ELSE IF ~o.contentType.present
                \/ ~Includes(o.contentType.value, "application/json")
        THEN Err(400, "API did not return JSON data")
        ELSE IF ~o.parses THEN Err(0, "")
        ELSE [status |-> 200, error |-> "", data |-> o.data,
              xcache |-> IF shouldCacheApi(url) THEN "MISS" ELSE "NO-CACHE",
              success |-> TRUE]

\* GET after `await fetch`: the response it returns for the fetch's outcome;
\* success says whether `data` was obtained (and so is cached if cacheable)
Classify(url, o) ==
    LET Err(status, msg) ==
            [status |-> status, error |-> msg, data |-> "", xcache |-> "",
             success |-> FALSE]
    IN  IF o.kind = "throw" THEN Err(500, CatchMessage(o))
        ELSE IF o.status = 429 THEN Err(429, UpstreamThrottleMessage)
        ELSE IF ~(o.status >= 200 /\ o.status <= 299)
        THEN Err(o.status, NotOkMessage(o))
        ELSE IF ~o.contentType.present
                \/ ~Includes(o.contentType.value, "application/json")
        THEN Err(400, "API did not return JSON data")
        ELSE IF ~o.parses THEN Err(500, CatchMessage(JsonSyntaxError))
        ELSE [status |-> 200, error |-> "", data |-> o.data,
              xcache |-> IF shouldCacheApi(url) THEN "MISS" ELSE "NO-CACHE",
              success |-> TRUE]

\* the cache after GET obtained `data` for (url, apiKey)
CacheAfterSuccess(url, apiKey, data) ==
    IF shouldCacheApi(url)
    THEN MapSet(cache, cacheKeyOnWrite(url, apiKey),
                [data |-> data, timestamp |-> now, ttl |-> getCacheDuration(url)])
    ELSE cache

-----------------------------------------------------------------------------
(* The state machine *)

\* a closure of fetchData: the hasAuthError, widget.apiUrl and widget.apiKey
\* of the render that created it
Closure(h, url, key) == [h |-> h, url |-> url, key |-> key]

\* no retry timer
NoTimer ==
    [n |-> 0, at |-> 0, f |-> Closure(FALSE, "", ""), setAt |-> 0, window |-> -1]

\* no Widget is mounted in any browser; `stopped` is history: a credential
\* error was received and no manual refresh or change of props came after it;
\* `window` of a request or timer is the start of the limiter's window that
\* caused the local denial (-1 when there was none)
NoWidget ==
    [mounted |-> FALSE, apiUrl |-> "", apiKey |-> "", hasAuthError |-> FALSE,
     fetchData |-> Closure(FALSE, "", ""), effectDue |-> FALSE,
     interval |-> [set |-> FALSE, at |-> 0, f |-> Closure(FALSE, "", "")],
     timers |-> {}, inflight |-> {}, sent |-> 0, ev |-> "none",
     stopped |-> FALSE, received |-> [status |-> 0, error |-> ""],
     fired |-> NoTimer]

NoStep ==
    [step |-> "none", id |-> 0, url |-> None, apiKey |-> None,
     skipCache |-> FALSE, status |-> 0, error |-> "", data |-> "",
     xcache |-> "", upstream |-> 0, outcome |-> NoOutcome]

Init ==
    /\ now = 0
    /\ policies = API_RATE_LIMITS
    /\ cache = << >>
    /\ requestQueue = << >>
    /\ pending = {}
    /\ nextSweep = REAPER_PERIOD_MS
    /\ nfetch = 0
    /\ last = NoStep
    /\ lastPut = << >>
    /\ limiterLog = {}
    /\ unsweptQueue = << >>
    /\ widget = NoWidget

\* GET up to its first return or to `await fetch`
GET(url, apiKey, skipCacheParam) ==
    LET skipCache == skipCacheParam = Some("true")
        id        == nfetch + 1
        Returns(status, msg, data, xcache) ==
            [step |-> "GET", id |-> 0, url |-> url, apiKey |-> apiKey,
             skipCache |-> skipCache, status |-> status, error |-> msg,
             data |-> data, xcache |-> xcache, upstream |-> 0,
             outcome |-> NoOutcome]
    IN  /\ UNCHANGED <<now, policies, cache, nextSweep, lastPut>>
        /\ IF ~Truthy(url)
           THEN /\ last' = Returns(400, "URL parameter is required", "", "")
                /\ UNCHANGED <<requestQueue, pending, nfetch, limiterLog,
                               unsweptQueue>>
           ELSE IF ~ParsesAsURL(url.value)
           THEN /\ last' = Returns(400, "Invalid URL provided", "", "")
                /\ UNCHANGED <<requestQueue, pending, nfetch, limiterLog,
                               unsweptQueue>>
           ELSE IF CacheProbe(url.value, apiKey, skipCache).hit
           THEN /\ last' = Returns(200, "",
                                   CacheProbe(url.value, apiKey, skipCache).data,
                                   "HIT")
                /\ UNCHANGED <<requestQueue, pending, nfetch, limiterLog,
                               unsweptQueue>>
           ELSE LET rl == isRateLimited(url.value)
                    un == isRateLimitedUnswept(url.value)
                    reaped == /\ url.value \notin DOMAIN requestQueue
                              /\ url.value \in DOMAIN unsweptQueue
                IN
                /\ requestQueue' = rl.queue
                /\ unsweptQueue' = un.queue
                /\ IF rl.limited
                   THEN /\ last' = Returns(429, LocalDenyMessage(url.value), "", "")
                        /\ limiterLog' = limiterLog \cup
                               {[id |-> 0, url |-> url.value, at |-> now,
                                 allowed |-> FALSE,
                                 windowStart |-> rl.queue[url.value].timestamp,
                                 unswept |-> ~un.limited, reaped |-> reaped,
                                 apiKey |-> apiKey]}
                        /\ UNCHANGED <<pending, nfetch>>
                   ELSE /\ nfetch' = id
                        /\ pending' = pending \cup
                               {[id |-> id, url |-> url.value, apiKey |-> apiKey,
                                 skipCache |-> skipCache, started |-> now]}
                        /\ last' = [Returns(0, "", "", "") EXCEPT
                                        !.step = "fetch", !.id = id]
                        /\ limiterLog' =
                               IF url.value \in DOMAIN rl.queue
                               THEN limiterLog \cup
                                    {[id |-> id, url |-> url.value, at |-> now,
                                      allowed |-> TRUE,
                                      windowStart |-> rl.queue[url.value].timestamp,
                                      unswept |-> ~un.limited,
                                      reaped |-> reaped, apiKey |-> apiKey]}
                               ELSE limiterLog

\* a return that gives the slot back when the call has failed
QueueAfterReturn_Refund(q, url, success) ==
    IF ~success /\ url \in DOMAIN q /\ q[url].count > 0
    THEN [q EXCEPT ![url].count = @ - 1]
    ELSE q

\* requestQueue after GET returned from its try or its catch block: neither
\* touches it
QueueAfterReturn(q, url, success) == q

\* GET from `await fetch` to its return, the fetch of call p having settled as o
Settle(p, o) ==
    LET r == Classify(p.url, o) IN
    /\ p \in pending
    /\ o.name = "TimeoutError" => now - p.started >= FETCH_TIMEOUT_MS
    /\ pending' = pending \ {p}
    /\ cache' = IF r.success THEN CacheAfterSuccess(p.url, p.apiKey, r.data)
                ELSE cache
    /\ lastPut' =
           IF r.success /\ cache' # cache
           THEN MapSet(lastPut, cacheKeyOnWrite(p.url, p.apiKey),
                       [url |-> p.url, apiKey |-> p.apiKey, data |-> r.data,
                        timestamp |-> now, ttl |-> getCacheDuration(p.url),
                        skipCache |-> p.skipCache,
                        overwrote |-> cacheKeyOnWrite(p.url, p.apiKey)
                                          \in DOMAIN cache])
           ELSE lastPut
    /\ last' = [step |-> "settle", id |-> p.id, url |-> Some(p.url),
                apiKey |-> p.apiKey, skipCache |-> p.skipCache,
                status |-> r.status, error |-> r.error, data |-> r.data,
                xcache |-> r.xcache, upstream |-> o.status, outcome |-> o]
    /\ requestQueue' = QueueAfterReturn(requestQueue, p.url, r.success)
    /\ UNCHANGED <<now, policies, nextSweep, nfetch, limiterLog, unsweptQueue>>

\* the setInterval callback
Reaper ==
    /\ now >= nextSweep
    /\ cache' = SweptCache(cache, now)
    /\ requestQueue' = SweptQueue(requestQueue, now)
    /\ nextSweep' = nextSweep + REAPER_PERIOD_MS
    /\ last' = [NoStep EXCEPT !.step = "reaper"]
    /\ UNCHANGED <<now, policies, pending, nfetch, lastPut, limiterLog,
                   unsweptQueue, widget>>

\* the next instant at which a timer is due: the reaper's, or the abort of a fetch
NextDeadline ==
    LET due == {nextSweep} \cup {p.started + FETCH_TIMEOUT_MS : p \in pending}
    IN  CHOOSE d \in due : \A e \in due : d <= e

\* time passes until the next timer is due; a due timer fires before more passes
AdvanceTime ==
    /\ now < NextDeadline
    /\ now' = NextDeadline
    /\ last' = [NoStep EXCEPT !.step = "time"]
    /\ UNCHANGED <<policies, cache, requestQueue, pending, nextSweep, nfetch,
                   lastPut, limiterLog, unsweptQueue, widget>>

\* one step of the process: its requests are drawn from the url, apiKey and
\* skipCache parameter values U, K and S and its fetches settle in every way
\* (all) or in the ways of MainOutcomes; at most f outbound fetches, at most
\* c of them in flight at once, and time
\* runs up to the t-th reaper period
Step(U, K, S, all, f, c, t) ==
    \/ \E url \in U, apiKey \in K, skip \in S :
           /\ GET(url, apiKey, skip)
           /\ nfetch' <= f
           /\ Cardinality(pending') <= c
           /\ UNCHANGED widget
    \/ \E p \in pending :
           \E o \in (IF all THEN Outcomes(p.id) ELSE MainOutcomes(p.id)) :
               Settle(p, o) /\ UNCHANGED widget
    \/ Reaper
    \/ AdvanceTime /\ now' <= t * REAPER_PERIOD_MS

-----------------------------------------------------------------------------
(* The requests of the model *)

CG_URL == "https://api.coingecko.com/a"
OTHER_URL == "https://example.com/a"
\* another URL of the same provider
CG_URL2 == "https://api.coingecko.com/b"
\* no scheme: new URL throws; it names the provider's domain all the same
BAD_URL == "api.coingecko.com/a"

\* values of the url query parameter (null when it is missing)
UrlParams == {None, Some(""), Some(BAD_URL), Some(CG_URL), Some(OTHER_URL)}

\* values of the apiKey query parameter
ApiKeyParams == {None, Some(""), Some("k1"), Some("k2")}

\* values of the skipCache query parameter
SkipCacheParams == {None, Some("true"), Some("1")}

-----------------------------------------------------------------------------
(* Every url parameter and every outcome of a fetch, over a short run *)

MaxFetches == 1
MaxPending == 1
MaxSweeps == 1

Next ==
    Step(UrlParams, {None, Some("k1")}, {None, Some("true")}, TRUE,
         MaxFetches, MaxPending, MaxSweeps)

Spec == Init /\ [][Next]_vars

\* the promise of the outbound fetch settles: it resolves, rejects, or is
\* aborted by AbortSignal.timeout, and the handler's continuation then runs
SettleSome ==
    \E p \in pending : \E o \in Outcomes(p.id) : Settle(p, o) /\ UNCHANGED widget

SpecLive == Spec /\ WF_vars(SettleSome)

-----------------------------------------------------------------------------
(* The rate limiter's scenario: one provider URL, no credential, enough     *)
(* fetches to use up a window and start the next                            *)

LimiterFetches == 4
LimiterPending == 1
LimiterSweeps == 3

NextLimiter ==
    Step({Some(CG_URL)}, {None}, SkipCacheParams, FALSE,
         LimiterFetches, LimiterPending, LimiterSweeps)

SpecLimiter == Init /\ [][NextLimiter]_vars

-----------------------------------------------------------------------------
(* The credentials' scenario: one provider URL under every apiKey value     *)

KeysFetches == 2
KeysPending == 1
KeysSweeps == 1

NextKeys ==
    Step({Some(CG_URL)}, ApiKeyParams, {None}, FALSE,
         KeysFetches, KeysPending, KeysSweeps)

SpecKeys == Init /\ [][NextKeys]_vars

-----------------------------------------------------------------------------
(* The cache's lifetime: one provider URL, from a fetch to the sweep that   *)
(* follows the end of its entry's TTL                                       *)

TtlFetches == 2
TtlPending == 1
TtlSweeps == 6

NextTtl ==
    Step({Some(CG_URL)}, {None, Some("k1")}, SkipCacheParams, FALSE,
         TtlFetches, TtlPending, TtlSweeps)

SpecTtl == Init /\ [][NextTtl]_vars

-----------------------------------------------------------------------------
(* A URL of no provider, requested more often than any policy allows *)

OpenFetches == 4
OpenPending == 1
OpenSweeps == 1

NextOpen ==
    Step({Some(OTHER_URL)}, {None, Some("k1")}, SkipCacheParams, FALSE,
         OpenFetches, OpenPending, OpenSweeps)

SpecOpen == Init /\ [][NextOpen]_vars

-----------------------------------------------------------------------------
(* Concurrent requests: a second GET arrives while the first is suspended  *)
(* at its fetch                                                             *)

FlightFetches == 3
FlightPending == 2
FlightSweeps == 1

NextFlight ==
    Step({Some(CG_URL)}, {None}, {None}, FALSE,
         FlightFetches, FlightPending, FlightSweeps)

SpecFlight == Init /\ [][NextFlight]_vars

-----------------------------------------------------------------------------
(* Two URLs of the provider under two credentials, inside one window:      *)
(* every request skips the cache and so reaches the rate limiter; no timer  *)
(* is due before FETCH_TIMEOUT_MS                                           *)

SharedFetches == 4

NextShared ==
    \/ \E url \in {Some(CG_URL), Some(CG_URL2)} :
           \E apiKey \in {Some("k1"), Some("k2")} :
               /\ GET(url, apiKey, Some("true"))
               /\ nfetch' <= SharedFetches
               /\ pending = {}
               /\ UNCHANGED widget
    \/ \E p \in pending :
           \E o \in MainOutcomes(p.id) : Settle(p, o) /\ UNCHANGED widget

SpecShared == Init /\ [][NextShared]_vars

-----------------------------------------------------------------------------
(* A burst at the end of a window: requests for one provider URL at the    *)
(* start of a window, at its last instant and one millisecond later, every  *)
(* fetch answered with JSON before the next request arrives                 *)

\* the instants at which the requests of the burst arrive
BurstTimes == {0, 60000, 60001}

BurstFetches == 6

\* time passes until the next instant of the burst; a due timer fires first
TickBurst ==
    /\ \E t \in BurstTimes : t > now
    /\ now' = CHOOSE t \in BurstTimes :
                  t > now /\ \A u \in BurstTimes : u > now => t <= u
    /\ now' <= NextDeadline
    /\ last' = [NoStep EXCEPT !.step = "time"]
    /\ UNCHANGED <<policies, cache, requestQueue, pending, nextSweep, nfetch,
                   lastPut, limiterLog, unsweptQueue, widget>>

NextBurst ==
    \/ \E skip \in {None, Some("true")} :
           /\ GET(Some(CG_URL), None, skip)
           /\ nfetch' <= BurstFetches
           /\ pending = {}
           /\ UNCHANGED widget
    \/ \E p \in pending :
           /\ Settle(p, Resp(200, "OK", JSON_CT, "", TRUE, Payload(p.id)))
           /\ UNCHANGED widget
    \/ Reaper
    \/ TickBurst

SpecBurst == Init /\ [][NextBurst]_vars

-----------------------------------------------------------------------------
(* A table with one fast policy: requests for one URL, a tenth of a second  *)
(* apart, every fetch answered with JSON; the reaper is not due before      *)
(* REAPER_PERIOD_MS and no fetch is aborted before FETCH_TIMEOUT_MS         *)

\* an entry of API_RATE_LIMITS (ApiRateLimitConfig) for example.com
ScenarioPolicy ==
    << [domain      |-> "example.com",
        maxRequests |-> 2,
        windowMs    |-> 1000,
        cacheMs     |-> 5000,
        description |-> "Example: 2 requests per second"] >>

\* the instants at which the requests of the scenario arrive
ScenarioTimes == {0, 100, 200, 300}

ScenarioFetches == 3

InitScenario ==
    /\ now = 0
    /\ policies = ScenarioPolicy
    /\ cache = << >>
    /\ requestQueue = << >>
    /\ pending = {}
    /\ nextSweep = REAPER_PERIOD_MS
    /\ nfetch = 0
    /\ last = NoStep
    /\ lastPut = << >>
    /\ limiterLog = {}
    /\ unsweptQueue = << >>
    /\ widget = NoWidget

\* time passes until the next instant of the scenario
Tick ==
    /\ \E t \in ScenarioTimes : t > now
    /\ now' = CHOOSE t \in ScenarioTimes :
                  t > now /\ \A u \in ScenarioTimes : u > now => t <= u
    /\ now' < NextDeadline
    /\ last' = [NoStep EXCEPT !.step = "time"]
    /\ UNCHANGED <<policies, cache, requestQueue, pending, nextSweep, nfetch,
                   lastPut, limiterLog, unsweptQueue, widget>>

NextScenario ==
    \/ \E skip \in SkipCacheParams :
           /\ GET(Some(OTHER_URL), None, skip)
           /\ nfetch' <= ScenarioFetches
           /\ pending = {}
           /\ UNCHANGED widget
    \/ \E p \in pending :
           /\ Settle(p, Resp(200, "OK", JSON_CT, "", TRUE, Payload(p.id)))
           /\ UNCHANGED widget
    \/ Tick

SpecScenario == InitScenario /\ [][NextScenario]_vars

-----------------------------------------------------------------------------
(* Two URLs of one provider, one of which ends in a colon and the other's   *)
(* credential                                                               *)

\* CG_URL followed by ":k1": new URL takes it, a colon may stand in a path
COLON_URL == "https://api.coingecko.com/a:k1"

CollideFetches == 2
CollidePending == 1
CollideSweeps  == 1

NextCollide ==
    Step({Some(CG_URL), Some(COLON_URL)}, {None, Some("k1")}, {None}, FALSE,
         CollideFetches, CollidePending, CollideSweeps)

SpecCollide == Init /\ [][NextCollide]_vars

-----------------------------------------------------------------------------
(* One entry of the cache, from its fetch to the sweeps that follow the end *)
(* of its TTL                                                               *)

StaleFetches == 1
StalePending == 1
StaleSweeps  == 7

NextStale ==
    Step({Some(CG_URL)}, {None}, {None}, FALSE,
         StaleFetches, StalePending, StaleSweeps)

SpecStale == Init /\ [][NextStale]_vars

-----------------------------------------------------------------------------
(* A table whose one policy has cacheMs 0 ("0 means no caching")            *)

\* an entry of API_RATE_LIMITS (ApiRateLimitConfig) with cacheMs 0
ZeroTtlPolicy ==
    << [domain      |-> "example.com",
        maxRequests |-> 3,
        windowMs    |-> 60000,
        cacheMs     |-> 0,
        description |-> "Example: 3 requests per minute"] >>

ZeroFetches == 2
ZeroPending == 1
ZeroSweeps  == 1

InitZero ==
    /\ now = 0
    /\ policies = ZeroTtlPolicy
    /\ cache = << >>
    /\ requestQueue = << >>
    /\ pending = {}
    /\ nextSweep = REAPER_PERIOD_MS
    /\ nfetch = 0
    /\ last = NoStep
    /\ lastPut = << >>
    /\ limiterLog = {}
    /\ unsweptQueue = << >>
    /\ widget = NoWidget

NextZero ==
    Step({Some(OTHER_URL)}, {None, Some("k1")}, SkipCacheParams, TRUE,
         ZeroFetches, ZeroPending, ZeroSweeps)

SpecZero == InitZero /\ [][NextZero]_vars

-----------------------------------------------------------------------------
(* A Widget component (Widget.tsx) in front of the route: its hasAuthError  *)
(* state, the fetchData closure of its latest render, its effect, its       *)
(* refresh interval and its retry timers.  A request it sends is a GET of   *)
(* the route; renders, effects, timers and clicks run in any order.         *)

\* a widget URL of the provider that Widget.tsx singles out
IN_URL == "https://stock.indianapi.in/a"

\* widget.refreshInterval * 1000
WidgetRefreshMs == 90000

WidgetSends   == 5
WidgetFetches == 4
WidgetSweeps  == 2

\* the variables of the route
gvars == <<now, policies, cache, requestQueue, pending, nextSweep, nfetch, last,
           lastPut, limiterLog, unsweptQueue>>

\* setTimeout(..., 60000): a delay of exactly the window
RetryAt_WindowOnly(t) == t + 60000

\* setTimeout(() => fetchData(false), 65000) set at t
RetryAt(t) == t + 65000

\* the statuses and messages Widget.tsx takes for a rejected credential
WidgetAuthError(url, status, errorMessage) ==
    /\ Includes(url, "indianapi.in")
    /\ \/ status = 401
       \/ status = 403
       \/ status = 400 /\ Includes(toLowerCase(errorMessage), "api key")
       \/ /\ status = 429
          /\ \/ Includes(toLowerCase(errorMessage), "unauthorized")
             \/ Includes(toLowerCase(errorMessage), "invalid")
             \/ Includes(toLowerCase(errorMessage), "api key")

\* the route answered with a credential error
CredentialAnswer(status, errorMessage) ==
    \/ status = 401
    \/ status = 403
    \/ status = 400 /\ errorMessage = "Bad Request: API key required for this endpoint"

\* fetchData(isManualRefresh) of closure f up to `await fetch(proxyUrl)`,
\* called by `by` after the caller has brought the widget to w
CallFetchData(w, f, manual, by) ==
    IF f.h /\ ~manual
    THEN /\ widget' = [w EXCEPT !.ev = by]
         /\ UNCHANGED gvars
    ELSE /\ widget.inflight = {}
         /\ widget.sent < WidgetSends
         /\ GET(Some(f.url),
                IF f.key = "" THEN None ELSE Some(f.key),
                IF manual /\ ~shouldCacheApi(f.url) THEN Some("true") ELSE None)
         /\ nfetch' <= WidgetFetches
         /\ widget' =
                [w EXCEPT
                   !.ev = by,
                   !.sent = @ + 1,
                   !.hasAuthError = IF manual THEN FALSE ELSE @,
                   !.stopped = IF manual THEN FALSE ELSE @,
                   !.inflight =
                       {[n |-> w.sent + 1, f |-> f, manual |-> manual,
                         id |-> last'.id,
                         answered |-> last'.step = "GET",
                         status |-> last'.status, error |-> last'.error,
                         window |-> IF last'.step = "GET" /\ last'.status = 429
                                    THEN requestQueue'[f.url].timestamp
                                    ELSE -1]}]

\* no render and no effect of the widget is outstanding
Quiet ==
    /\ ~widget.effectDue
    /\ widget.fetchData =
           Closure(widget.hasAuthError, widget.apiUrl, widget.apiKey)

\* the component mounts with its props; its first effect is due
Mount ==
    /\ ~widget.mounted
    /\ \E url \in {IN_URL, CG_URL} :
           widget' = [NoWidget EXCEPT
                        !.mounted = TRUE, !.apiUrl = url, !.apiKey = "k1",
                        !.fetchData = Closure(FALSE, url, "k1"),
                        !.effectDue = TRUE, !.ev = "mount"]
    /\ UNCHANGED gvars

\* a render after a state or props change: useCallback makes a new fetchData
\* when one of its dependencies changed, and the effect depends on fetchData
Render ==
    /\ widget.mounted
    /\ widget.fetchData #
           Closure(widget.hasAuthError, widget.apiUrl, widget.apiKey)
    /\ widget' = [widget EXCEPT
                    !.fetchData = Closure(widget.hasAuthError, widget.apiUrl,
                                          widget.apiKey),
                    !.effectDue = TRUE, !.ev = "render"]
    /\ UNCHANGED gvars

\* the useEffect callback, after the cleanup of the run before it
Effect ==
    /\ widget.mounted
    /\ widget.effectDue
    /\ CallFetchData([widget EXCEPT
                        !.hasAuthError = FALSE,
                        !.effectDue = FALSE,
                        !.interval = [set |-> TRUE, at |-> now + WidgetRefreshMs,
                                      f |-> widget.fetchData]],
                     widget.fetchData, FALSE, "effect")

\* the setInterval callback of the effect
IntervalFire ==
    /\ widget.interval.set
    /\ now >= widget.interval.at
    /\ CallFetchData([widget EXCEPT !.interval.at = @ + WidgetRefreshMs],
                     widget.interval.f, FALSE, "interval")

\* the setTimeout callback of the 429 handling
RetryFire ==
    \E t \in widget.timers :
        /\ now >= t.at
        /\ CallFetchData([widget EXCEPT !.timers = @ \ {t}, !.fired = t],
                         t.f, FALSE, "retry")

\* handleRefreshClick; the user clicks when the widget has settled
ManualRefresh ==
    /\ widget.mounted
    /\ Quiet
    /\ CallFetchData(widget, widget.fetchData, TRUE, "manual")

\* updateWidget from the builder: the widget's credential changes
ChangeApiKey ==
    /\ widget.mounted
    /\ Quiet
    /\ widget.inflight = {}
    /\ widget.apiKey = "k1"
    /\ widget' = [widget EXCEPT !.apiKey = "k2", !.stopped = FALSE,
                                !.ev = "change"]
    /\ UNCHANGED gvars

\* the ways the fetch of the route settles in front of a widget
WidgetOutcomes(id) ==
    { Resp(200, "OK", JSON_CT, "", TRUE, Payload(id)),
      Resp(401, "Unauthorized", JSON_CT, "", TRUE, ""),
      Resp(429, "Too Many Requests", JSON_CT, "", TRUE, "") }

\* the route answers a request it had forwarded
WidgetSettle ==
    \E p \in pending : \E o \in WidgetOutcomes(p.id) :
        /\ Settle(p, o)
        /\ widget' =
               [widget EXCEPT
                  !.ev = "route",
                  !.inflight =
                      {IF r.id = p.id /\ ~r.answered
                       THEN [r EXCEPT !.answered = TRUE,
                                      !.status = last'.status,
                                      !.error = last'.error]
                       ELSE r : r \in widget.inflight}]

\* fetchData from `await fetch(proxyUrl)` to its end, for request r
Receive ==
    \E r \in widget.inflight :
        /\ r.answered
        /\ LET ok == r.status >= 200 /\ r.status <= 299
               auth == ~ok /\ WidgetAuthError(r.f.url, r.status, r.error)
               throttled == ~ok /\ ~auth /\ r.status = 429
           IN  widget' =
                   [widget EXCEPT
                      !.ev = "receive",
                      !.inflight = @ \ {r},
                      !.hasAuthError = IF auth THEN TRUE
                                       ELSE IF ok THEN FALSE ELSE @,
                      !.timers = IF throttled
                                 THEN @ \cup {[n |-> r.n, at |-> RetryAt(now),
                                               f |-> r.f, setAt |-> now,
                                               window |-> r.window]}
                                 ELSE @,
                      !.stopped = @ \/ CredentialAnswer(r.status, r.error),
                      !.received = [status |-> r.status, error |-> r.error]]
        /\ UNCHANGED gvars

\* the next instant at which a timer of the route or of the widget is due
WidgetDeadline ==
    LET due == {NextDeadline}
               \cup (IF widget.interval.set THEN {widget.interval.at} ELSE {})
               \cup {t.at : t \in widget.timers}
    IN  CHOOSE d \in due : \A e \in due : d <= e

\* time passes until the next timer is due; renders and effects take no time
WidgetTime ==
    /\ Quiet
    /\ now < WidgetDeadline
    /\ now' = WidgetDeadline
    /\ now' <= WidgetSweeps * REAPER_PERIOD_MS
    /\ last' = [NoStep EXCEPT !.step = "time"]
    /\ widget' = [widget EXCEPT !.ev = "time"]
    /\ UNCHANGED <<policies, cache, requestQueue, pending, nextSweep, nfetch,
                   lastPut, limiterLog, unsweptQueue>>

NextWidget ==
    \/ Mount
    \/ Render
    \/ Effect
    \/ IntervalFire
    \/ RetryFire
    \/ ManualRefresh
    \/ ChangeApiKey
    \/ WidgetSettle
    \/ Receive
    \/ Reaper
    \/ WidgetTime

SpecWidget == Init /\ [][NextWidget]_vars

-----------------------------------------------------------------------------
(* Reading the latest step *)

\* the latest step ran GET (to a return, or to the outbound fetch)
RanGET(l) == l.step \in {"GET", "fetch"}

\* the latest step ran GET with a url that passed validation
RanValidGET(l) == RanGET(l) /\ Truthy(l.url) /\ ParsesAsURL(l.url.value)

\* the latest step returned the cached payload
IsHit(l) == l.step = "GET" /\ l.status = 200 /\ l.xcache = "HIT"

\* the latest step returned the local rate-limit denial
IsLocalDeny(l) == l.step = "GET" /\ l.status = 429

\* the allowed calls of the log for url in the window that started at w
AllowedIn(url, w) ==
    {g \in limiterLog : g.allowed /\ g.url = url /\ g.windowStart = w}

\* the quota of url is used up in the window requestQueue holds for it
Exhausted(url) ==
    /\ url \in DOMAIN requestQueue
    /\ now - requestQueue[url].timestamp <= getRateLimitConfig(url).windowMs
    /\ requestQueue[url].count >= getRateLimitConfig(url).maxRequests

-----------------------------------------------------------------------------
(* C2: a request answered from the cache leaves requestQueue as it is and   *)
(* makes no outbound call; a request whose key is cached, and which does    *)
(* not skip the cache, is answered from the cache whatever the state of     *)
(* the URL's quota, never with the local 429.                               *)
C2_HitBypassesLimiter ==
    [][ /\ IsHit(last') =>
            /\ requestQueue' = requestQueue
            /\ pending' = pending
            /\ nfetch' = nfetch
        /\ ( /\ RanValidGET(last')
             /\ ~last'.skipCache
             /\ shouldCacheApi(last'.url.value)
             /\ cacheKey(last'.url.value, last'.apiKey) \in DOMAIN cache )
           => /\ IsHit(last')
              /\ requestQueue' = requestQueue
              /\ pending' = pending ]_vars

\* a hit served while the URL's quota for the current window is used up
C2_Witness ==
    /\ IsHit(last)
    /\ Exhausted(last.url.value)

(* C5: in every window of a provider URL (from the windowStart the limiter  *)
(* set until the window has elapsed) at most maxRequests calls are allowed, *)
(* every allowed call lies inside the window it is counted in, and a new    *)
(* window starts only after the one before has elapsed: once maxRequests    *)
(* calls were allowed, further calls inside the window are denied.          *)
C5_QuotaPerWindow ==
    \A g \in limiterLog :
        LET config == getRateLimitConfig(g.url) IN
        /\ Cardinality(AllowedIn(g.url, g.windowStart)) <= config.maxRequests
        /\ g.windowStart <= g.at
        /\ g.at - g.windowStart <= config.windowMs
        /\ \A h \in limiterLog :
               (h.url = g.url /\ h.windowStart > g.windowStart)
                   => h.windowStart - g.windowStart > config.windowMs
        /\ ~g.allowed =>
               Cardinality(AllowedIn(g.url, g.windowStart)) = config.maxRequests

\* the 4th call of a window is denied after 3 were allowed
C5_Witness ==
    /\ IsLocalDeny(last)
    /\ Cardinality(AllowedIn(last.url.value,
                             requestQueue[last.url.value].timestamp)) = 3

(* C6: the first isRateLimited call for a URL after its window has elapsed  *)
(* (more than windowMs after windowStart), or after the reaper removed its  *)
(* entry, is allowed and leaves the entry at timestamp = now, count = 1,    *)
(* whatever was allowed or denied before; a denial leaves the entry, and so *)
(* the end of the window, as it was.                                        *)
C6_RecoverableByWaiting ==
    [][ LET url == last'.url.value IN
        /\ ( /\ RanValidGET(last')
             /\ last'.step = "fetch" \/ IsLocalDeny(last')
             /\ getRateLimitConfig(url) # NoConfig
             /\ \/ url \notin DOMAIN requestQueue
                \/ now - requestQueue[url].timestamp
                       > getRateLimitConfig(url).windowMs )
           => /\ last'.step = "fetch"
              /\ requestQueue'[url] = [timestamp |-> now, count |-> 1]
        /\ IsLocalDeny(last') => requestQueue' = requestQueue ]_vars

\* a URL that was denied in a window is allowed again after that window
C6_Witness ==
    /\ last.step = "fetch"
    /\ requestQueue[last.url.value] = [timestamp |-> now, count |-> 1]
    /\ \E d \in limiterLog :
           /\ ~d.allowed
           /\ d.url = last.url.value
           /\ d.windowStart < now

(* C9: when isRateLimited denies a request, GET returns 429 with a message  *)
(* that contains the description of the URL's policy, starts no outbound    *)
(* fetch, and leaves the count of the URL and the cache as they were; a     *)
(* request that reaches the limiter with the quota used up is denied.       *)
C9_LocalDeny ==
    [][ LET url == last'.url.value IN
        /\ IsLocalDeny(last') =>
              /\ Includes(last'.error, getRateLimitConfig(url).description)
              /\ getRateLimitConfig(url) # NoConfig
              /\ pending' = pending
              /\ nfetch' = nfetch
              /\ requestQueue' = requestQueue
              /\ cache' = cache
        /\ ( /\ RanValidGET(last')
             /\ Exhausted(url)
             /\ \/ last'.skipCache
                \/ cacheKey(url, last'.apiKey) \notin DOMAIN cache )
           => IsLocalDeny(last') ]_vars

\* a denial issued while three calls of the window were allowed
C9_Witness ==
    /\ IsLocalDeny(last)
    /\ Exhausted(last.url.value)
    /\ last.error =
           "CoinGecko free tier: 3 requests per minute. Please wait before making another request."

-----------------------------------------------------------------------------
(* The cache *)

\* the absence of a credential: apiKey missing or empty (GET tests `apiKey ?`)
Credential(apiKey) == IF Truthy(apiKey) THEN apiKey.value ELSE ""

\* the latest cache.set under the key of the latest request was made for that
\* request's url and apiKey, and its TTL has not elapsed
FreshPutFor(l) ==
    LET key == cacheKey(l.url.value, l.apiKey) IN
    /\ key \in DOMAIN lastPut
    /\ lastPut[key].url = l.url.value
    /\ lastPut[key].apiKey = l.apiKey
    /\ now - lastPut[key].timestamp < lastPut[key].ttl

(* C1: after a request for (url, apiKey) succeeded and was cached, a        *)
(* request for the same url and apiKey without skipCache that arrives       *)
(* within the TTL, no other cache.set for that key having come between,     *)
(* returns the payload of that first request with X-Cache = HIT.            *)
C1_HitWithinTtl ==
    ( /\ RanValidGET(last)
      /\ ~last.skipCache
      /\ shouldCacheApi(last.url.value)
      /\ FreshPutFor(last) )
    => /\ IsHit(last)
       /\ last.data = lastPut[cacheKey(last.url.value, last.apiKey)].data

\* a hit on an entry that has seen reaper sweeps and is in the last part of
\* its TTL
C1_Witness ==
    /\ IsHit(last)
    /\ FreshPutFor(last)
    /\ now - lastPut[cacheKey(last.url.value, last.apiKey)].timestamp
           > 4 * REAPER_PERIOD_MS

(* C3: once the TTL of an entry has elapsed (now - timestamp >= ttl), a     *)
(* request for its key without skipCache is not answered with the entry:    *)
(* it is a miss, also before the reaper's next sweep.                       *)
C3_ExpiredIsMiss ==
    LET key == cacheKey(last.url.value, last.apiKey) IN
    ( /\ RanValidGET(last)
      /\ ~last.skipCache
      /\ key \in DOMAIN cache
      /\ now - cache[key].timestamp >= cache[key].ttl )
    => ~IsHit(last)

(* C4: a payload cached by a request for a URL under one credential is      *)
(* never returned as a hit to a request for that URL under another          *)
(* credential or under none: every hit returns what was cached by a         *)
(* request with the same url and the same credential.                       *)
C4_CredentialsDoNotShare ==
    IsHit(last) =>
        \E k \in DOMAIN lastPut :
            /\ lastPut[k].url = last.url.value
            /\ Credential(lastPut[k].apiKey) = Credential(last.apiKey)
            /\ lastPut[k].data = last.data
            /\ \A j \in DOMAIN lastPut :
                   (/\ lastPut[j].url = last.url.value
                    /\ Credential(lastPut[j].apiKey) # Credential(last.apiKey))
                       => lastPut[j].data # last.data

\* a request under k2 goes to the upstream while the payload of the same URL
\* is cached under k1
C4_Witness ==
    /\ last.step = "fetch"
    /\ last.apiKey = Some("k2")
    /\ cacheKey(last.url.value, Some("k1")) \in DOMAIN cache

(* C7: a request with skipCache=true is never answered from the cache,    *)
(* warm entry or not: it goes to the rate limiter and, if allowed, to the   *)
(* upstream; when it succeeds for a cacheable provider it replaces the      *)
(* entry of its key by the fresh payload, and a request for the same url    *)
(* and apiKey without skipCache that follows gets that payload as a hit.    *)
C7_SkipCacheRefreshes ==
    [][ /\ (RanValidGET(last') /\ last'.skipCache) =>
              /\ ~IsHit(last')
              /\ last'.step = "fetch" \/ IsLocalDeny(last')
        /\ ( /\ last'.step = "settle"
             /\ last'.skipCache
             /\ last'.status = 200
             /\ shouldCacheApi(last'.url.value) )
           => /\ cacheKey(last'.url.value, last'.apiKey) \in DOMAIN cache'
              /\ cache'[cacheKey(last'.url.value, last'.apiKey)] =
                     [data |-> last'.data, timestamp |-> now,
                      ttl |-> getCacheDuration(last'.url.value)]
        /\ ( /\ last.step = "settle"
             /\ last.skipCache
             /\ last.status = 200
             /\ shouldCacheApi(last.url.value)
             /\ RanGET(last')
             /\ ~last'.skipCache
             /\ last'.url = last.url
             /\ last'.apiKey = last.apiKey )
           => /\ IsHit(last')
              /\ last'.data = last.data ]_vars

\* a hit that returns what a skipCache request put in place of a warm entry
C7_Witness ==
    LET key == cacheKey(last.url.value, last.apiKey) IN
    /\ IsHit(last)
    /\ key \in DOMAIN lastPut
    /\ lastPut[key].skipCache
    /\ lastPut[key].overwrote
    /\ last.data = lastPut[key].data
    /\ last.data = Payload(2)

-----------------------------------------------------------------------------
(* Validation and the two kinds of 429 *)

\* the url parameters of the model that are missing or no absolute URL
InvalidUrlParams == {None, Some(""), Some(BAD_URL)}

(* C8: a request whose url is missing or is not an absolute URL is answered *)
(* with 400 at once: the cache and requestQueue stay as they are and no     *)
(* outbound fetch is started.                                               *)
C8_InvalidUrlRejected ==
    [][ (RanGET(last') /\ last'.url \in InvalidUrlParams) =>
            /\ last'.step = "GET"
            /\ last'.status = 400
            /\ cache' = cache
            /\ requestQueue' = requestQueue
            /\ pending' = pending
            /\ nfetch' = nfetch ]_vars

\* a url that names the provider but has no scheme is rejected while the
\* cache holds an entry
C8_Witness ==
    /\ last.step = "GET"
    /\ last.status = 400
    /\ last.url = Some(BAD_URL)
    /\ last.error = "Invalid URL provided"
    /\ cache # << >>

(* C10: an upstream 429 is returned as 429 with a message that no local     *)
(* rate-limit denial produces, for any URL; the cache is not written.       *)
C10_UpstreamThrottleDistinct ==
    [][ (last'.step = "settle" /\ last'.upstream = 429) =>
            /\ last'.status = 429
            /\ \A u \in {CG_URL, OTHER_URL} : last'.error # LocalDenyMessage(u)
            /\ cache' = cache
            /\ lastPut' = lastPut ]_vars

\* the provider answered 429 to a fetch for the provider URL
C10_Witness ==
    /\ last.step = "settle"
    /\ last.upstream = 429
    /\ last.status = 429
    /\ last.url = Some(CG_URL)

-----------------------------------------------------------------------------
(* The classification of what the upstream returns *)

\* the latest step is the return of GET after its fetch resolved
Resolved(l) == l.step = "settle" /\ l.outcome.kind = "response"

\* the latest step is the return of GET after its fetch rejected
Rejected(l) == l.step = "settle" /\ l.outcome.kind = "throw"

\* bodies of the model's 400 responses that speak of the credential
CredentialBodies == {"Missing API Key", "Authentication failed", "UNAUTHORIZED"}

\* the upstream's response is a credential failure
CredentialFailure(o) ==
    \/ o.status \in {401, 403}
    \/ o.status = 400 /\ o.text \in CredentialBodies

\* the generic message of a response that is not ok
IsGenericHttpError(msg) == StartsWith(msg, "HTTP error! status: ")

(* C11 as stated: every credential failure (upstream 401, 403, or 400 with  *)
(* a body that speaks of the credential) is returned with status 401 or 403 *)
(* and a message that is not the generic 'HTTP error' message.              *)
C11_AuthClassStatus ==
    (Resolved(last) /\ CredentialFailure(last.outcome)) =>
        /\ last.status \in {401, 403}
        /\ ~IsGenericHttpError(last.error)

(* C11 amended: every credential failure is returned with the status the    *)
(* upstream gave (401, 403, or 400 for the 400 with a credential body) and  *)
(* with a message that names the credential problem and is not the generic  *)
(* 'HTTP error' message; every other response that is not ok and not 429    *)
(* gets the generic message, so the message tells the two apart.            *)
C11_AuthClassMessage ==
    /\ (Resolved(last) /\ CredentialFailure(last.outcome)) =>
          /\ last.status = last.outcome.status
          /\ last.status \in {400, 401, 403}
          /\ ~IsGenericHttpError(last.error)
          /\ Includes(toLowerCase(last.error), "api key")
    /\ ( /\ Resolved(last)
         /\ ~CredentialFailure(last.outcome)
         /\ last.outcome.status \notin {200, 429} )
       => /\ last.status = last.outcome.status
          /\ IsGenericHttpError(last.error)

\* a 400 of the upstream whose body speaks of the credential, returned as 400
\* with the credential message
C11_Witness ==
    /\ Resolved(last)
    /\ last.outcome.status = 400
    /\ last.outcome.text = "Authentication failed"
    /\ last.status = 400
    /\ last.error = "Bad Request: API key required for this endpoint"

\* a 2xx response that is not JSON by its content-type or by its body
NotJson(o) ==
    /\ o.status >= 200 /\ o.status <= 299
    /\ \/ ~o.contentType.present
       \/ ~Includes(o.contentType.value, "application/json")
       \/ ~o.parses

(* C12: a 2xx response whose content-type is not JSON, or whose body does   *)
(* not parse as JSON, is answered with the format error in both cases: the  *)
(* same status and message, not the 500 of the network/timeout kind; no     *)
(* payload is returned and the cache is not written.                        *)
C12_FormatErrorOneKind ==
    [][ (Resolved(last') /\ NotJson(last'.outcome)) =>
            /\ last'.status = 400
            /\ last'.error = "API did not return JSON data"
            /\ last'.data = ""
            /\ cache' = cache ]_vars

\* the three messages of the catch block
TimeoutMessage == "Request timed out. Please check if the API is accessible."
UnableToConnectMessage ==
    "Unable to connect to the API. Please check if the URL is correct and accessible."
NetworkMessage ==
    "Network error. Please check the URL and your internet connection."

\* the rejection is a timeout or an abort
IsTimeout(e) == e.name \in {"AbortError", "TimeoutError"}

\* the rejection is a connection failure by its error code
IsConnectionFailure(e) == ~IsTimeout(e) /\ e.code \in {"ECONNREFUSED", "ENOTFOUND"}

(* C13: a rejected fetch is answered with 500 and a message that tells      *)
(* three cases apart: a timeout or abort always gets the timeout message, a *)
(* rejection with error code ECONNREFUSED or ENOTFOUND always gets the      *)
(* 'unable to connect' message (never the generic network message), and     *)
(* every other rejection gets neither of these two.                         *)
C13_ThreeNetworkCases ==
    Rejected(last) =>
        /\ last.status = 500
        /\ IsTimeout(last.outcome) => last.error = TimeoutMessage
        /\ IsConnectionFailure(last.outcome) =>
               /\ last.error = UnableToConnectMessage
               /\ last.error # NetworkMessage
        /\ (~IsTimeout(last.outcome) /\ ~IsConnectionFailure(last.outcome)) =>
               last.error \notin {TimeoutMessage, UnableToConnectMessage}

-----------------------------------------------------------------------------
(* Termination *)

\* the latest step returned a response
Returned(l) == l.step \in {"GET", "settle"}

\* a success envelope: 200 with the payload and a cache indicator
SuccessEnvelope(l) ==
    /\ l.status = 200
    /\ l.error = ""
    /\ l.xcache \in {"HIT", "MISS", "NO-CACHE"}

\* an error envelope: {error: message} with a 4xx or 5xx status
ErrorEnvelope(l) ==
    /\ l.status >= 400 /\ l.status <= 599
    /\ l.error # ""
    /\ l.data = ""
    /\ l.xcache = ""

(* C14: every return of the handler, whatever validation, the cache probe,  *)
(* the rate limiter and the outbound fetch did (success, any status,        *)
(* non-JSON body, rejection, timeout), is one success envelope or one error *)
(* envelope {error: message} with a status, never a fault; and every call   *)
(* suspended at the outbound fetch returns.                                 *)
C14_AlwaysOneResponse ==
    /\ [](Returned(last) =>
              /\ SuccessEnvelope(last) \/ ErrorEnvelope(last)
              /\ ~(SuccessEnvelope(last) /\ ErrorEnvelope(last))
              /\ last.step = "settle" =>
                     \A p \in pending : p.id # last.id)
    /\ \A n \in 1..MaxFetches :
           (\E p \in pending : p.id = n)
               ~> (last.step = "settle" /\ last.id = n)

\* a fetch rejected with an error that has no message is answered with the
\* default message of the catch block
C14_Witness ==
    /\ Rejected(last)
    /\ ~last.outcome.message.present
    /\ last.status = 500
    /\ last.error = "Failed to fetch the resource"
    /\ pending = {}

-----------------------------------------------------------------------------
(* The reaper *)

(* C15: after a sweep of the reaper at time now the cache holds no entry    *)
(* with now - timestamp > ttl, read since it was written or not, and every  *)
(* entry with now - timestamp <= ttl is still there, unchanged; the sweep   *)
(* adds nothing.                                                            *)
C15_SweepEvictsExpired ==
    [][ last'.step = "reaper" =>
            /\ \A k \in DOMAIN cache' :
                   now - cache'[k].timestamp <= cache'[k].ttl
            /\ \A k \in DOMAIN cache :
                   now - cache[k].timestamp <= cache[k].ttl
                       => k \in DOMAIN cache' /\ cache'[k] = cache[k]
            /\ DOMAIN cache' \subseteq DOMAIN cache ]_vars

\* the first sweep after the end of its TTL has removed the only entry that
\* was ever written
C15_Witness ==
    /\ last.step = "reaper"
    /\ cache = << >>
    /\ nfetch = 1
    /\ \E k \in DOMAIN lastPut :
           /\ now - lastPut[k].timestamp > lastPut[k].ttl
           /\ now - lastPut[k].timestamp <= lastPut[k].ttl + REAPER_PERIOD_MS

(* C16: the reaper removes a requestQueue entry only when now - timestamp   *)
(* exceeds STALE_MS, which is larger than the windowMs of every policy, so  *)
(* the window of a removed entry has elapsed; and every decision of         *)
(* isRateLimited, over all requests and sweeps, is the decision it takes on *)
(* a requestQueue that is never swept: what the two queues hold differs     *)
(* only by entries whose window has elapsed.                                *)
C16_ReaperInvisibleToLimiter ==
    /\ \A i \in 1..Len(policies) : policies[i].windowMs < STALE_MS
    /\ \A g \in limiterLog : g.allowed = g.unswept
    /\ DOMAIN requestQueue \subseteq DOMAIN unsweptQueue
    /\ \A u \in DOMAIN unsweptQueue :
           IF u \in DOMAIN requestQueue
           THEN requestQueue[u] = unsweptQueue[u]
           ELSE /\ now - unsweptQueue[u].timestamp > STALE_MS
                /\ now - unsweptQueue[u].timestamp
                       > getRateLimitConfig(u).windowMs

\* a request is allowed after the reaper removed the entry of its URL, whose
\* window had been used up
C16_Witness ==
    /\ last.step = "fetch"
    /\ \E g \in limiterLog :
           /\ g.id = last.id
           /\ g.reaped
           /\ g.allowed
           /\ g.unswept
    /\ \E d \in limiterLog : ~d.allowed /\ d.url = last.url.value

-----------------------------------------------------------------------------
(* The end-to-end scenario: policy {maxRequests 2, windowMs 1000, cacheMs   *)
(* 5000} for OTHER_URL, every upstream call succeeding                      *)

\* request A was allowed at t = 0 as the first call of its window, and has
\* returned
AfterA ==
    /\ nfetch = 1
    /\ pending = {}
    /\ OTHER_URL \in DOMAIN requestQueue
    /\ requestQueue[OTHER_URL] = [timestamp |-> 0, count |-> 1]
    /\ OTHER_URL \in DOMAIN cache
    /\ cache[OTHER_URL].data = Payload(1)

\* after A, request C was allowed at t = 200 with skipCache, and has returned
AfterC ==
    /\ nfetch = 2
    /\ pending = {}
    /\ OTHER_URL \in DOMAIN requestQueue
    /\ requestQueue[OTHER_URL] = [timestamp |-> 0, count |-> 2]
    /\ \E g \in limiterLog : g.id = 2 /\ g.at = 200 /\ g.allowed
    /\ OTHER_URL \in DOMAIN lastPut
    /\ lastPut[OTHER_URL].skipCache
    /\ OTHER_URL \in DOMAIN cache
    /\ cache[OTHER_URL].data = Payload(2)

\* requests A, B and C of the scenario: A at t = 0 is allowed as call 1 of
\* the window and caches its payload; B at t = 100 is a hit with A's payload
\* and leaves requestQueue alone; C at t = 200 with skipCache is allowed as
\* call 2 and replaces the entry by its own payload
ScenarioABC ==
    /\ (now = 0 /\ nfetch = 0 /\ RanGET(last')) =>
           /\ last'.step = "fetch"
           /\ requestQueue' = (OTHER_URL :> [timestamp |-> 0, count |-> 1])
    /\ (last'.step = "settle" /\ last'.id = 1) =>
           /\ last'.status = 200
           /\ last'.xcache = "MISS"
           /\ cache' = (OTHER_URL :> [data |-> Payload(1), timestamp |-> now,
                                      ttl |-> 5000])
    /\ (AfterA /\ now = 100 /\ RanGET(last') /\ ~last'.skipCache) =>
           /\ IsHit(last')
           /\ last'.data = Payload(1)
           /\ requestQueue' = requestQueue
           /\ nfetch' = nfetch
    /\ (AfterA /\ now = 200 /\ RanGET(last') /\ last'.skipCache) =>
           /\ last'.step = "fetch"
           /\ requestQueue' = (OTHER_URL :> [timestamp |-> 0, count |-> 2])
    /\ (last'.step = "settle" /\ last'.id = 2 /\ last'.skipCache) =>
           /\ last'.status = 200
           /\ cache' = (OTHER_URL :> [data |-> Payload(2), timestamp |-> now,
                                      ttl |-> 5000])

(* C17 as stated: in the scenario, A, B and C go as described and request D *)
(* for the same URL at t = 300 is denied with 429.                          *)
C17_ScenarioAnyD ==
    [][ /\ ScenarioABC
        /\ (AfterC /\ now = 300 /\ RanGET(last')) =>
               /\ IsLocalDeny(last')
               /\ last'.status = 429 ]_vars

(* C17 amended: in the scenario, A, B and C go as described; request D at   *)
(* t = 300 is denied with 429, with no outbound call and the count left at  *)
(* 2, if it carries skipCache=true; without skipCache, D is a cache hit     *)
(* with C's payload and never reaches the rate limiter.                     *)
C17_ScenarioSkipCacheD ==
    [][ /\ ScenarioABC
        /\ (AfterC /\ now = 300 /\ RanGET(last') /\ last'.skipCache) =>
               /\ IsLocalDeny(last')
               /\ last'.status = 429
               /\ requestQueue' = requestQueue
               /\ nfetch' = nfetch
        /\ (AfterC /\ now = 300 /\ RanGET(last') /\ ~last'.skipCache) =>
               /\ IsHit(last')
               /\ last'.data = Payload(2)
               /\ requestQueue' = requestQueue ]_vars

\* D is denied at t = 300 after A at t = 0 and C at t = 200 took the two
\* slots of the window that started at t = 0
C17_Witness ==
    /\ AfterC
    /\ now = 300
    /\ IsLocalDeny(last)
    /\ last.skipCache
    /\ \E g \in limiterLog : g.id = 1 /\ g.at = 0 /\ g.allowed
    /\ \E d \in limiterLog : ~d.allowed /\ d.at = 300 /\ d.windowStart = 0

-----------------------------------------------------------------------------
(* URLs of no provider *)

(* C18: a request for a URL that matches no policy is never denied by the   *)
(* local rate limiter and never answered from the cache, however many came  *)
(* before and whenever: it always goes to the upstream, and requestQueue    *)
(* and the cache stay as they are; its return never writes the cache, and   *)
(* its success carries X-Cache = NO-CACHE.                                  *)
C18_NoPolicyNoLimitNoCache ==
    [][ /\ (RanGET(last') /\ last'.url = Some(OTHER_URL)) =>
              /\ last'.step = "fetch"
              /\ requestQueue' = requestQueue
              /\ cache' = cache
        /\ (last'.step = "settle" /\ last'.url = Some(OTHER_URL)) =>
              /\ cache' = cache
              /\ lastPut' = lastPut
              /\ last'.status = 200 => last'.xcache = "NO-CACHE"
        /\ \A k \in DOMAIN cache' : ~StartsWith(k, OTHER_URL)
        /\ OTHER_URL \notin DOMAIN requestQueue' ]_vars

\* the fourth request within the first minute goes to the upstream like the
\* three before it, and neither map has an entry
C18_Witness ==
    /\ last.step = "fetch"
    /\ last.url = Some(OTHER_URL)
    /\ last.id = 4
    /\ now < REAPER_PERIOD_MS
    /\ cache = << >>
    /\ requestQueue = << >>

-----------------------------------------------------------------------------
(* Concurrency *)

\* the calls suspended at their fetch for the key of (url, apiKey)
InFlightFor(url, apiKey) ==
    {p \in pending : cacheKey(p.url, p.apiKey) = cacheKey(url, apiKey)}

(* C19: there is no single-flight de-duplication: a request whose key is    *)
(* not cached and whose URL has quota left goes to the upstream and         *)
(* consumes a slot whether or not calls for the same key are in flight,     *)
(* because the cache is written only after the awaited fetch; every call    *)
(* in flight has consumed its own slot.                                     *)
C19_NoSingleFlight ==
    [][ LET url == last'.url.value IN
        /\ ( /\ RanValidGET(last')
             /\ shouldCacheApi(url)
             /\ cacheKey(url, last'.apiKey) \notin DOMAIN cache
             /\ ~Exhausted(url) )
           => /\ last'.step = "fetch"
              /\ Cardinality(pending') = Cardinality(pending) + 1
              /\ InFlightFor(url, last'.apiKey) \subseteq pending'
              /\ \E g \in limiterLog' \ limiterLog :
                     g.id = last'.id /\ g.allowed
              /\ ( /\ url \in DOMAIN requestQueue
                   /\ now - requestQueue[url].timestamp
                          <= getRateLimitConfig(url).windowMs )
                 => requestQueue'[url] =
                        [requestQueue[url] EXCEPT !.count = @ + 1]
        /\ \A q \in pending' :
               \E g \in limiterLog' : g.id = q.id /\ g.allowed /\ g.url = q.url
      ]_vars

\* two calls for the same URL, not cached, are both in flight and the count
\* of the URL is 2
C19_Witness ==
    /\ Cardinality(InFlightFor(CG_URL, None)) = 2
    /\ CG_URL \notin DOMAIN cache
    /\ nfetch = 2
    /\ requestQueue[CG_URL].count = 2
    /\ Cardinality({g \in limiterLog : g.allowed /\ g.url = CG_URL}) = 2

-----------------------------------------------------------------------------
(* What writes the cache *)

\* the key of (url, apiKey): the url, followed by ':' and the credential if
\* there is one
KeyOf(url, apiKey) ==
    IF Credential(apiKey) = "" THEN url ELSE url \o ":" \o Credential(apiKey)

\* the step set or replaced an entry of the cache
CacheWritten ==
    \E k \in DOMAIN cache' : k \notin DOMAIN cache \/ cache'[k] # cache[k]

(* C20: an entry of the cache is set only by the return of a successful     *)
(* forward for a provider URL, which stores the payload under the key of    *)
(* (url, apiKey) with timestamp = now and ttl = the policy's cacheMs and    *)
(* changes no other entry; such a return always writes; a return with any   *)
(* error (400, local or upstream 429, credential error, other status,       *)
(* format error, network or timeout) and a cache hit leave the cache as it  *)
(* was.                                                                     *)
C20_CacheWrittenOnlyOnSuccess ==
    [][ LET url == last'.url.value
            key == KeyOf(url, last'.apiKey)
            Forwarded == /\ last'.step = "settle"
                         /\ last'.status = 200
                         /\ url = CG_URL
        IN
        /\ CacheWritten => Forwarded
        /\ Forwarded =>
              /\ last'.xcache = "MISS"
              /\ last'.outcome.status = 200
              /\ last'.data = last'.outcome.data
              /\ DOMAIN cache' = DOMAIN cache \cup {key}
              /\ cache'[key] = [data |-> last'.data, timestamp |-> now,
                                ttl |-> 300000]
              /\ \A k \in DOMAIN cache : k # key => cache'[k] = cache[k]
        /\ (Returned(last') /\ (last'.status # 200 \/ IsHit(last')))
              => cache' = cache ]_vars

\* a successful forward under the credential k1 has stored its payload under
\* the key made of the url and k1
C20_Witness ==
    /\ last.step = "settle"
    /\ last.status = 200
    /\ last.apiKey = Some("k1")
    /\ DOMAIN cache = {"https://api.coingecko.com/a:k1"}
    /\ cache["https://api.coingecko.com/a:k1"] =
           [data |-> last.data, timestamp |-> now, ttl |-> 300000]

-----------------------------------------------------------------------------
(* The key of the rate limiter *)

(* C21: requestQueue is keyed by the URL alone: the count of a URL is the   *)
(* number of calls allowed in its window under all credentials together,    *)
(* and counts only calls for that URL; so a request is denied, whatever its *)
(* apiKey, once maxRequests calls for its URL were allowed in the window    *)
(* under any apiKey, and calls for another URL of the provider do not       *)
(* count.                                                                   *)
C21_LimiterKeyedByUrl ==
    /\ DOMAIN requestQueue \subseteq {CG_URL, CG_URL2}
    /\ \A u \in DOMAIN requestQueue :
           requestQueue[u].count =
               Cardinality(AllowedIn(u, requestQueue[u].timestamp))
    /\ \A g \in limiterLog :
           ~g.allowed =>
               Cardinality(AllowedIn(g.url, g.windowStart)) =
                   getRateLimitConfig(g.url).maxRequests
    /\ IsLocalDeny(last) =>
           Cardinality(AllowedIn(last.url.value,
                                 requestQueue[last.url.value].timestamp)) =
               getRateLimitConfig(last.url.value).maxRequests

\* a request under k2 is denied after three calls under k1 used up the
\* window of its URL, while the other URL of the provider stands at count 1
C21_Witness ==
    /\ IsLocalDeny(last)
    /\ last.url = Some(CG_URL)
    /\ last.apiKey = Some("k2")
    /\ \A g \in AllowedIn(CG_URL, requestQueue[CG_URL].timestamp) :
           g.apiKey = Some("k1")
    /\ CG_URL2 \in DOMAIN requestQueue
    /\ requestQueue[CG_URL2].count = 1
    /\ now - requestQueue[CG_URL2].timestamp <= 60000

-----------------------------------------------------------------------------
(* The end of a window *)

\* the latest step called isRateLimited for a URL that has an entry
ReachedLimiter(l) == RanValidGET(l) /\ (l.step = "fetch" \/ IsLocalDeny(l))

(* C22 as stated: a call of the rate limiter at now - windowStart >=         *)
(* windowMs, the instant now = windowStart + windowMs included, starts a    *)
(* new window (windowStart = now, count = 1) and is allowed, even if the    *)
(* quota of the window before was used up.                                  *)
C22_ResetAtWindowEnd ==
    [][ LET url == last'.url.value IN
        ( /\ ReachedLimiter(last')
          /\ url \in DOMAIN requestQueue
          /\ now - requestQueue[url].timestamp >= 60000 )
        => /\ last'.step = "fetch"
           /\ requestQueue'[url] = [timestamp |-> now, count |-> 1] ]_vars

(* C22 amended: the count of a window is valid within [windowStart,         *)
(* windowStart + windowMs], both ends included: a call at now =             *)
(* windowStart + windowMs is still counted in that window, and denied if    *)
(* its quota is used up; the first call with now - windowStart > windowMs   *)
(* starts a new window with windowStart = now, count = 1 and is allowed.    *)
C22_ResetAfterWindowEnd ==
    [][ LET url == last'.url.value IN
        /\ ( /\ ReachedLimiter(last')
             /\ url \in DOMAIN requestQueue
             /\ now - requestQueue[url].timestamp > 60000 )
           => /\ last'.step = "fetch"
              /\ requestQueue'[url] = [timestamp |-> now, count |-> 1]
        /\ ( /\ ReachedLimiter(last')
             /\ url \in DOMAIN requestQueue
             /\ now - requestQueue[url].timestamp = 60000 )
           => IF requestQueue[url].count >= 3
              THEN /\ IsLocalDeny(last')
                   /\ requestQueue' = requestQueue
              ELSE /\ last'.step = "fetch"
                   /\ requestQueue'[url] =
                          [requestQueue[url] EXCEPT !.count = @ + 1] ]_vars

\* a request is denied at the very instant windowStart + windowMs of a
\* window whose quota is used up
C22_Witness ==
    /\ IsLocalDeny(last)
    /\ last.url = Some(CG_URL)
    /\ now - requestQueue[CG_URL].timestamp = 60000
    /\ requestQueue[CG_URL].count = 3

-----------------------------------------------------------------------------
(* Bursts at the boundary of two windows *)

\* the calls for url allowed at an instant of the closed interval [t, t + len]
AllowedWithin(url, t, len) ==
    {g \in limiterLog : g.allowed /\ g.url = url /\ t <= g.at /\ g.at <= t + len}

\* the starts of the windows of url in which maxRequests calls were allowed
UsedUpWindows(url) ==
    {g.windowStart : g \in {h \in limiterLog :
        /\ h.url = url
        /\ Cardinality(AllowedIn(url, h.windowStart)) = 3}}

(* C23 as stated: in every interval of length windowMs at most              *)
(* 2 x maxRequests calls of a URL are allowed, and the bound is reached by  *)
(* maxRequests calls at the end of one window and maxRequests right after   *)
(* the next window starts: when a window whose calls came as late as it     *)
(* permits is followed by a window that starts at the first instant after   *)
(* it and is used up at once, the 2 x maxRequests calls of the two windows  *)
(* lie in one interval of length windowMs.                                  *)
C23_BurstOfTwiceQuota ==
    /\ \A g \in limiterLog :
           Cardinality(AllowedWithin(g.url, g.at, 60000)) <= 2 * 3
    /\ \A s1 \in UsedUpWindows(CG_URL) :
           ( /\ s1 + 60001 \in UsedUpWindows(CG_URL)
             /\ \A g \in AllowedIn(CG_URL, s1) : g.at \in {s1, s1 + 60000}
             /\ \A g \in AllowedIn(CG_URL, s1 + 60001) : g.at = s1 + 60001 )
           => \E t \in {g.at : g \in limiterLog} :
                  Cardinality(AllowedWithin(CG_URL, t, 60000)) = 2 * 3

(* C23 amended: in every interval of length windowMs at most                *)
(* 2 x maxRequests - 1 calls of a URL are allowed (so at most               *)
(* 2 x maxRequests), because the first call of a window is at its start     *)
(* and the next window starts more than windowMs later; 2 x maxRequests     *)
(* calls never take less than windowMs + 1 ms.                              *)
C23_BurstBelowTwiceQuota ==
    \A g \in limiterLog :
        /\ Cardinality(AllowedWithin(g.url, g.at, 60000)) <= 2 * 3 - 1
        /\ Cardinality(AllowedWithin(g.url, g.at, 60001)) <= 2 * 3

\* two calls at the last instant of a window and three one millisecond
\* later: five in an interval of length windowMs, six in windowMs + 1
C23_Witness ==
    /\ Cardinality(AllowedWithin(CG_URL, 60000, 60000)) = 5
    /\ Cardinality(AllowedWithin(CG_URL, 0, 60001)) = 6
    /\ Cardinality(AllowedIn(CG_URL, 0)) = 3
    /\ Cardinality(AllowedIn(CG_URL, 60001)) = 3

-----------------------------------------------------------------------------
(* A policy with cache TTL 0 *)

\* url falls under a policy whose cacheMs is 0
ZeroTtlProvider(url) ==
    /\ getRateLimitConfig(url) # NoConfig
    /\ getRateLimitConfig(url).cacheMs = 0

(* C24: for a provider whose policy has cache TTL 0 no response is ever     *)
(* written to the cache, no request is answered as a cache hit, and a       *)
(* successful response carries X-Cache: NO-CACHE.                           *)
C24_ZeroTtlNeverCached ==
    /\ \A k \in DOMAIN cache : cache[k].ttl > 0
    /\ \A k \in DOMAIN lastPut : lastPut[k].ttl > 0
    /\ (RanValidGET(last) /\ ZeroTtlProvider(last.url.value)) => ~IsHit(last)
    /\ ( /\ last.step = "settle" /\ last.status = 200
         /\ ZeroTtlProvider(last.url.value) ) => last.xcache = "NO-CACHE"

-----------------------------------------------------------------------------
(* The widget after a credential error *)

\* the step sent a request of the widget that no click asked for
AutomaticSend ==
    /\ widget'.sent > widget.sent
    /\ widget'.ev \in {"effect", "interval", "retry"}

(* C25: once the route has answered a request of the widget with a         *)
(* credential error, the effect, the refresh interval and the retry timers  *)
(* send no request for the widget until a manual refresh or a change of    *)
(* its URL or credential.                                                   *)
C25_StopsAfterCredentialError ==
    [][ AutomaticSend => ~widget.stopped ]_vars

-----------------------------------------------------------------------------
(* The widget after a 429 *)

(* C26: when the widget receives a 429, from the limiter or passed on from  *)
(* the provider, it sets a timer that retries 65000 ms later; 65000 ms is   *)
(* more than the windowMs of every policy, so a retry reaches the limiter   *)
(* after the window that caused the denial has ended and is not counted in  *)
(* that window.                                                             *)
C26_RetryAfterWindow ==
    [][ /\ \A r \in widget.inflight \ widget'.inflight :
               (r.answered /\ r.status = 429) =>
                   \E t \in widget'.timers \ widget.timers :
                       /\ t.at = now + 65000
                       /\ t.f.url = r.f.url
        /\ \A i \in 1..Len(policies) : policies[i].windowMs < 65000
        /\ \A t \in widget.timers \ widget'.timers :
               /\ widget'.ev = "retry"
               /\ now >= t.setAt + 65000
               /\ (t.window >= 0 /\ widget'.sent > widget.sent) =>
                      /\ now - t.window > getRateLimitConfig(t.f.url).windowMs
                      /\ t.f.url \in DOMAIN requestQueue' =>
                             requestQueue'[t.f.url].timestamp > t.window
      ]_vars

\* the retry of a request that the limiter denied in the window that began
\* at 0 is sent at 65000, after that window, and begins a new one
C26_Witness ==
    /\ widget.ev = "retry"
    /\ widget.fired.window = 0
    /\ widget.fired.setAt = 0
    /\ now = 65000
    /\ last.step = "fetch"
    /\ requestQueue[CG_URL] = [timestamp |-> 65000, count |-> 1]

-----------------------------------------------------------------------------
(* Cache keys of different requests *)

(* C27: requests that differ in URL or credential have different cache     *)
(* keys: the key of a request equals the key of a stored entry only if the  *)
(* entry was fetched for the same URL and credential, and a cache hit       *)
(* returns a payload that was fetched for the URL and credential of the     *)
(* request.                                                                 *)
C27_DistinctPairsDistinctKeys ==
    RanValidGET(last) =>
        /\ \A k \in DOMAIN lastPut :
               k = cacheKey(last.url.value, last.apiKey) =>
                   /\ lastPut[k].url = last.url.value
                   /\ Credential(lastPut[k].apiKey) = Credential(last.apiKey)
        /\ IsHit(last) =>
               \E k \in DOMAIN lastPut :
                   /\ lastPut[k].data = last.data
                   /\ lastPut[k].url = last.url.value
                   /\ Credential(lastPut[k].apiKey) = Credential(last.apiKey)

-----------------------------------------------------------------------------
(* How stale a hit can be *)

(* C28: the reaper sweeping every 60000 ms, a cache hit returns a payload   *)
(* that was stored at most ttl + 60000 ms before the hit, and the cache     *)
(* never holds an entry for longer than that.                               *)
C28_StalenessBounded ==
    /\ \A k \in DOMAIN cache :
           now - cache[k].timestamp <= cache[k].ttl + 60000
    /\ IsHit(last) =>
           LET k == cacheKey(last.url.value, last.apiKey) IN
           /\ k \in DOMAIN lastPut
           /\ lastPut[k].data = last.data
           /\ now - lastPut[k].timestamp <= lastPut[k].ttl + 60000

\* a hit at the instant of the sweep that removes the entry, before the
\* sweep: the payload is exactly ttl + 60000 ms old
C28_Witness ==
    /\ IsHit(last)
    /\ now - lastPut[cacheKey(last.url.value, last.apiKey)].timestamp
           = 300000 + 60000
    /\ now >= nextSweep

-----------------------------------------------------------------------------
(* Interleaved requests for one key *)

\* the outbound call (numbered in the order of their starts) that obtained
\* the payload data
CallOf(data) == CHOOSE i \in 1..nfetch : Payload(i) = data

-----------------------------------------------------------------------------
(* The slot of a call that fails *)

(* C30: the limiter counts a request when it allows it, before the          *)
(* outbound call, and the count is never taken back: the return of a call,  *)
(* whatever its outcome (timeout, upstream 429, success), leaves            *)
(* requestQueue as it was; the count of a URL is the number of calls        *)
(* allowed in its window, failed ones included; so when maxRequests calls   *)
(* of a window were allowed, the next request that reaches the limiter in   *)
(* that window is denied, also when all of them failed.                     *)
C30_SlotNotReturned ==
    [][ /\ last'.step = "fetch" =>
               /\ last'.url.value \in DOMAIN requestQueue'
               /\ requestQueue'[last'.url.value].count =
                      IF /\ last'.url.value \in DOMAIN requestQueue
                         /\ requestQueue'[last'.url.value].timestamp =
                                requestQueue[last'.url.value].timestamp
                      THEN requestQueue[last'.url.value].count + 1
                      ELSE 1
        /\ last'.step = "settle" => requestQueue' = requestQueue
        /\ \A u \in DOMAIN requestQueue' :
               requestQueue'[u].count =
                   Cardinality({g \in limiterLog' :
                       /\ g.allowed /\ g.url = u
                       /\ g.windowStart = requestQueue'[u].timestamp})
        /\ ( /\ ReachedLimiter(last')
             /\ last'.url.value \in DOMAIN requestQueue
             /\ now - requestQueue[last'.url.value].timestamp <= 60000
             /\ Cardinality({g \in limiterLog :
                    /\ g.allowed /\ g.url = last'.url.value
                    /\ g.windowStart =
                           requestQueue[last'.url.value].timestamp}) = 3 )
           => IsLocalDeny(last')
      ]_vars

\* three calls were allowed, none of them succeeded, and the fourth request
\* of the window is denied by the limiter
C30_Witness ==
    /\ IsLocalDeny(last)
    /\ nfetch = 3
    /\ pending = {}
    /\ lastPut = << >>
    /\ requestQueue[CG_URL].count = 3
    /\ now - requestQueue[CG_URL].timestamp <= 60000

=============================================================================
